---- MODULE Spec2Model ----
(***************************************************************************)
(* Verification model of the BiliNote backend core:                        *)
(*   - NoteGenerator.generate, the staged pipeline with per-stage file     *)
(*     caches (backend/app/services/note.py),                              *)
(*   - the transcriber provider registry                                   *)
(*     (backend/app/transcriber/transcriber_provider.py),                  *)
(*   - save_cli_result, the batch-mode result writer (backend/main.py).    *)
(***************************************************************************)
EXTENDS Integers, Sequences, FiniteSets, TLC

\* ------------------------------------------------------------------ bounds

\* Number of generate invocations explored in one behaviour.
MaxRuns == 2

\* ------------------------------------------------------------ value domains

\* Callers that may be inside generate (one at a time in Spec).
Procs == {"p1", "p2"}

\* Task identifiers; every cache path is derived from the task identifier.
Tasks == {"t1"}

\* The three cached stages, in pipeline order.
CacheStages == {"Download", "Transcribe", "Summarize"}

\* What the external capabilities return to invocation number k: a value no
\* other invocation gets, so that a recomputation is distinguishable from a
\* cache hit.  The markdown holds one screenshot marker and one link marker.
AudioOf(k) == "audio" \o ToString(k)
TranscriptOf(k) == "transcript" \o ToString(k)
MarkdownOf(k) == <<"shot" \o ToString(k), "link">>
ShotMarkers == {"shot" \o ToString(k) : k \in 1..(MaxRuns + 1)}

\* Python's None for the string-valued locals.
None == "None"

\* A byte range that was never written (a hole left by a write past EOF).
Hole == "\\0"

\* ---------------------------------------------------------------- variables

VARIABLES
    cliMode,        \* note.IS_CLI_MODE
    files,          \* files[t][s]: the cache file of stage s for task t
    video_path,     \* self.video_path: 0 = None, k = video fetched by run k
    video_img_urls, \* self.video_img_urls: frame grids, tagged by run
    db,             \* rows written by insert_video_task
    pc,             \* pc[p]: position of caller p inside generate
    req,            \* req[p]: the arguments caller p passed
    loc,            \* loc[p]: locals of the invocation
    trace,          \* trace[p]: capabilities and cache accesses, in order
    result,         \* result[p]: what generate returned
    runs,           \* number of invocations started so far
    ghost,          \* ghost[p]: observations about the running invocation
    hist            \* hist[t]: what earlier invocations of task t left

pvars == <<cliMode, files, video_path, video_img_urls, db, pc, req, loc,
           trace, result, runs, ghost, hist>>

\* The provider registry and the threads calling get_transcriber.
VARIABLES
    mlxAvailable,   \* MLX_WHISPER_AVAILABLE
    whisperLoaded,  \* WhisperTranscriber is not None (its import worked)
    transcribers,   \* _transcribers[key]: 0 = None, k > 0 = instance k
    made,           \* made[key]: the instances constructed for key
    broke,          \* the keys whose constructor has raised
    tpc,            \* tpc[th]: position of thread th in get_transcriber
    treq,           \* treq[th]: [token, key, inst, ret] of its request
    tobs,           \* tobs[th]: what the request saw and did
    requests        \* number of get_transcriber requests so far

rvars == <<mlxAvailable, whisperLoaded, transcribers, made, broke, tpc, treq,
           tobs, requests>>

\* The batch-mode result directory of one business key, the processes
\* inside save_cli_result, and the consumer polling result.json.
VARIABLES
    dirent,         \* dirent[name]: inode behind the name, 0 = no entry
    inode,          \* inode[i]: the content of inode i
    wpc,            \* wpc[w]: position of writer w in save_cli_result
    wst,            \* wst[w]: [doc, fd, off, status] of its call
    seen,           \* what the consumer's last read of result.json saw
    saves           \* number of save_cli_result calls so far

evars == <<dirent, inode, wpc, wst, seen, saves>>

\* The batch-mode process: main.py run with a video URL as its argument.
VARIABLES
    cpc,            \* position of the entry point
    envCli,         \* os.environ["CLI_MODE"] == "true"
    noteOutputDir,  \* note.NOTE_OUTPUT_DIR
    cpayload,       \* the payload the entry point hands to save_cli_result
    cobs            \* what the process saw: the stage that raised, the exit

cvars == <<cpc, envCli, noteOutputDir, cpayload, cobs>>

\* One application of a text function of note.py to one input: the
\* screenshot insertion, or a cache file written and read back.
VARIABLES
    xop,            \* the function applied
    xpc,            \* how far the application has come
    xdoc,           \* _insert_screenshots: the markdown handed in
    xmd,            \* _insert_screenshots: the markdown as rewritten so far
    xcalls,         \* _insert_screenshots: the generate_screenshot calls
    xtr,            \* the transcript the transcriber returned
    xtext,          \* the markdown the summarizer returned
    xfile,          \* the cache file as written
    xback           \* what the cache-hit branch returns

xvars == <<xop, xpc, xdoc, xmd, xcalls, xtr, xtext, xfile, xback>>

vars == <<pvars, rvars, evars, cvars, xvars>>

\* What a step of the pipeline, of the registry, of the result writer, of
\* the entry point, or of a text function leaves alone.
PFrame == UNCHANGED <<rvars, evars, cvars, xvars>>
RFrame == UNCHANGED <<pvars, evars, cvars, xvars>>
EFrame == UNCHANGED <<pvars, rvars, cvars, xvars>>
CFrame == UNCHANGED <<rvars, xvars>>
XFrame == UNCHANGED <<pvars, rvars, evars, cvars>>

\* ------------------------------------------------------------------- files

\* A path with no file behind it.
Absent == [exists |-> FALSE, data |-> <<>>]

\* json.dumps(asdict(x), ...): the object's body, then its closing brace.
JsonDump(v) == <<v, "}">>

\* json.loads succeeds exactly on a complete document.
JsonWellFormed(d) == Len(d) = 2 /\ d[1] \notin {"}", Hole} /\ d[2] = "}"

\* The value json.loads yields for a complete document.
JsonLoad(d) == d[1]

\* Mutant: the download stage never takes its cache hit.
AudioCacheHit_Never(f) == FALSE

\* Mutant: an audio cache file that does not parse counts as a miss.
AudioCacheHit_WellFormed(f) == f.exists /\ JsonWellFormed(f.data)

\* audio_cache_file.exists()
AudioCacheHit(f) == f.exists

\* transcript_cache_file.exists()
TranscriptCacheHit(f) == f.exists

\* Mutant: the summarize stage never takes its cache hit.
MarkdownCacheHit_Never(f) == FALSE

\* markdown_cache_file.exists()
MarkdownCacheHit(f) == f.exists

\* write(2) of one chunk at offset pos: overwrites in place, extends the
\* file, and leaves a hole when pos is past the end.
WriteAt(d, pos, c) ==
    LET n == IF Len(d) > pos + 1 THEN Len(d) ELSE pos + 1
    IN  [i \in 1..n |-> IF i = pos + 1 THEN c
                        ELSE IF i <= Len(d) THEN d[i] ELSE Hole]

\* ---------------------------------------------------------------- requests

Formats == SUBSET {"screenshot", "link"}

\* The arguments of generate that decide its control flow.  platform_ok:
\* SUPPORT_PLATFORM_MAP has the platform; model: model_name and provider_id
\* are both given; grid: grid_size is a non-empty list.  (link, style and
\* extras are only handed on to the summarizer and decide nothing here.)
ReqSet ==
    [task_id : Tasks, platform_ok : BOOLEAN, model : BOOLEAN,
     screenshot : BOOLEAN, formats : Formats, video_understanding : BOOLEAN,
     grid : BOOLEAN, summary : BOOLEAN, transcribe : BOOLEAN]

NoReq ==
    [task_id |-> "t1", platform_ok |-> FALSE, model |-> FALSE,
     screenshot |-> FALSE, formats |-> {}, video_understanding |-> FALSE,
     grid |-> FALSE, summary |-> FALSE, transcribe |-> FALSE]

\* Mutant: the mode override forgets screenshot and summary.
CliOverride_Partial(a, cli) ==
    IF cli
    THEN [a EXCEPT !.video_understanding = FALSE, !.formats = {}]
    ELSE a

\* generate, "CLI 强制阉割视觉 & GPT": the flags after the mode override.
CliOverride(a, cli) ==
    IF cli
    THEN [a EXCEPT !.screenshot = FALSE, !.video_understanding = FALSE,
                   !.formats = {}, !.summary = FALSE]
    ELSE a

\* The flags the stages of caller p's invocation see.
Eff(p) == CliOverride(req[p], cliMode)

\* ----------------------------------------------------------------- results

Pending == [kind |-> "pending", markdown |-> <<>>, transcript |-> None,
            audio_meta |-> None]

\* `return None` of the except branch.
NoneResult == [kind |-> "None", markdown |-> <<>>, transcript |-> None,
               audio_meta |-> None]

NoteResult(md, tr, au) ==
    [kind |-> "NoteResult", markdown |-> md, transcript |-> tr,
     audio_meta |-> au]

\* ------------------------------------------------------------------ locals

InitLoc == [gpt |-> FALSE, audio_meta |-> None, transcript |-> None,
            markdown |-> <<>>, wpos |-> -1]

NoCalls == [s \in CacheStages |-> 0]

NoFiles == [s \in CacheStages |-> Absent]

InitGhost == [run |-> 0, nth |-> 0, completed |-> {}, raised |-> "none",
              preFiles |-> NoFiles, preResumable |-> {}, torn |-> {},
              grids |-> <<>>, usedVideo |-> 0]

InitHist == [n |-> 0, calls |-> NoCalls, resumable |-> {}]

\* ------------------------------------------------------------ control flow

\* Mutant: the video is fetched for screenshots only.
NeedVideo_ScreenshotOnly(e) == e.screenshot

\* _download_media: need_video = screenshot or video_understanding.
NeedVideo(e) == e.screenshot \/ e.video_understanding

\* Mutant: summarization is gated on the backend alone.
SummarizeGate_GptOnly(gpt, transcript) == gpt

\* generate: `if gpt and transcript`.
SummarizeGate(gpt, transcript) == gpt /\ transcript # None

\* generate: `if not IS_CLI_MODE and _format`.
PostProcessGate(cli, formats) == ~cli /\ formats # {}

\* generate: `if not IS_CLI_MODE: self._save_metadata(...)`.
AfterPostProcess == IF ~cliMode THEN "save_metadata" ELSE "return"

\* _post_process_markdown: `if "link" in formats`.
AfterScreenshots(p) ==
    IF "link" \in Eff(p).formats THEN "replace_links" ELSE AfterPostProcess

\* Mutant: after the summary, control goes back to the transcript stage.
AfterSummarize_Revisit(p) == "transcribe_check"

\* _post_process_markdown: `if "screenshot" in formats and video_path`.
AfterSummarize(p) ==
    IF PostProcessGate(cliMode, Eff(p).formats)
    THEN IF "screenshot" \in Eff(p).formats /\ video_path # 0
         THEN "insert_screenshots"
         ELSE AfterScreenshots(p)
    ELSE AfterPostProcess

\* generate: where control goes once the transcript (or None) is known.
AfterTranscribe(p, transcript) ==
    IF SummarizeGate(loc[p].gpt, transcript)
    THEN "summarize_check"
    ELSE AfterSummarize(p)

\* generate: `if transcribe`.
AfterDownload(p) ==
    IF Eff(p).transcribe THEN "transcribe_check" ELSE AfterTranscribe(p, None)

\* ----------------------------------------------------- leaving generate

\* hist after caller p's invocation ended.  failedAt: the stage that raised
\* ("none": a NoteResult was returned; "killed": the process died).  The
\* stages a failed invocation completed are what a later run resumes from.
Leave(p, h, failedAt) ==
    LET t == req[p].task_id
    IN  [h EXCEPT ![t].n = @ + 1,
                  ![t].resumable =
                      IF failedAt # "none" THEN @ \cup ghost[p].completed
                      ELSE @]

\* Mutant: a failed download is swallowed and transcription goes on.
ExceptPc_Continue(p, stage) ==
    IF stage = "Download" THEN "transcribe" ELSE "done"

\* generate: where an exception raised in `stage` takes control.
ExceptPc(p, stage) == "done"

\* Mutant: the except branch returns an empty success value.
ExceptResult_Empty(p) == NoteResult(<<>>, None, None)

\* generate: what the except branch returns.
ExceptResult(p) == NoneResult

\* An exception raised in `stage` of caller p's invocation; h and g are
\* hist and ghost as the raising step leaves them.
RaiseFrom(p, stage, h, g) ==
    /\ pc' = [pc EXCEPT ![p] = ExceptPc(p, stage)]
    /\ result' = [result EXCEPT ![p] = ExceptResult(p)]
    /\ ghost' = [g EXCEPT ![p].raised = stage]
    /\ hist' = Leave(p, h, stage)
    /\ loc' = [loc EXCEPT ![p] = InitLoc]

Raise(p, stage, h) == RaiseFrom(p, stage, h, ghost)

\* hist with one more invocation of the capability of stage s for task t.
Called(t, s) == [hist EXCEPT ![t].calls[s] = @ + 1]

\* trace of caller p with event e appended.
Log(p, e) == [trace EXCEPT ![p] = Append(@, e)]

\* ghost with stage s of caller p's invocation completed.
Completed(p, s) == [ghost EXCEPT ![p].completed = @ \cup {s}]

\* What write_text leaves once it has returned: the whole document, which
\* for the two JSON caches parses and for the markdown cache is a complete
\* summary.
WholeArtifact(s, d) ==
    IF s = "Summarize"
    THEN \E k \in 1..(MaxRuns + 1) : d = MarkdownOf(k)
    ELSE JsonWellFormed(d)

\* ghost with stage s of caller p's invocation completed by a cache hit
\* that read d.
Hit(p, s, d) ==
    [ghost EXCEPT ![p].completed = @ \cup {s},
                  ![p].torn = IF WholeArtifact(s, d) THEN @ ELSE @ \cup {s}]

\* ------------------------------------------------------ provider registry

\* class TranscriberType(str, Enum)
TranscriberType == {"fast-whisper", "mlx-whisper", "bcut", "kuaishou", "groq"}

\* Type tokens a caller may pass: the supported ones and one that is not.
Tokens == TranscriberType \cup {"no-such-type"}

\* Threads that may be inside get_transcriber at the same time.
Threads == {"r1", "r2"}

\* What a request returns when an exception reaches its caller.
Raised == -1

NoTReq == [token |-> "fast-whisper", key |-> "fast-whisper", inst |-> 0,
           ret |-> 0]

NoTObs == [afterFailure |-> FALSE, sawEmpty |-> FALSE, attempted |-> FALSE,
           failed |-> FALSE, via |-> "get_transcriber", rejected |-> FALSE]

\* ----------------------------------------------------------- result writer

\* Number of save_cli_result calls explored in one behaviour.
MaxSaves == 3

\* Processes that may be inside save_cli_result for the same bvid.
Writers == {"w1", "w2"}

\* The two names in /data/content/{bvid}: final_path and tmp_path.
Names == {"result.json", "result.json.tmp"}

\* Inodes the directory can come to hold: one per open that creates.
Inodes == 1..(MaxSaves + 1)

\* result_payload and error_payload of the entry point, told apart by call.
Payloads == {"SUCCESS", "FAILED"}

\* json.dump(payload, f, ...): the document as the chunks written to f.
ResultDoc(payload, k) == JsonDump(payload \o ToString(k))

NoWst == [doc |-> <<>>, fd |-> 0, off |-> 0, status |-> "none"]

NotRead == [kind |-> "none", data |-> <<>>]

\* The result directory before any result was written.
EInit ==
    /\ dirent = [n \in Names |-> 0]
    /\ inode = [i \in Inodes |-> <<>>]
    /\ wpc = [w \in Writers |-> "idle"]
    /\ wst = [w \in Writers |-> NoWst]
    /\ seen = NotRead
    /\ saves = 0

\* -------------------------------------------------------------- entry point

\* NOTE_OUTPUT_DIR in batch mode, and its default in service mode.
BatchOutputDir == "/tmp/billnote_runtime"
ServiceOutputDir == "note_results"

\* The keyword arguments of the batch-mode generate call.
CliArgs ==
    [task_id |-> "t1", platform_ok |-> TRUE, model |-> FALSE,
     screenshot |-> FALSE, formats |-> {}, video_understanding |-> FALSE,
     grid |-> FALSE, summary |-> FALSE, transcribe |-> TRUE]

\* str(e) of the exception a stage raised.
ErrMsg(stage) == "error in " \o stage

\* str(e) of RuntimeError("转写失败或结果为空").
EmptyResultMsg == "transcription failed or result empty"

NoPayload == [status |-> "none", error |-> ""]

\* result_payload: status SUCCESS, no error field.
SuccessPayload == [status |-> "SUCCESS", error |-> ""]

\* error_payload: status FAILED, error = str(e).
ErrorPayload(msg) == [status |-> "FAILED", error |-> msg]

NoCobs == [raised |-> "none", exit |-> -1]

\* No batch-mode process is running.
CInit ==
    /\ cpc = "off"
    /\ envCli = FALSE
    /\ noteOutputDir = ServiceOutputDir
    /\ cpayload = NoPayload
    /\ cobs = NoCobs

\* ------------------------------------------------------------ text functions

\* Longest markdown handed to _insert_screenshots, in tokens.
MaxDocLen == 3

\* The two marker forms of _extract_screenshot_timestamps:
\* *Screenshot-mm:ss and Screenshot-[mm:ss].
Forms == {"star", "bracket"}

\* The timestamps markers carry, as <<mm, ss>>.
Stamps == {<<1, 5>>, <<0, 20>>, <<2, 0>>}

\* A stretch of markdown that holds no marker.
PlainText == [kind |-> "text", mm |-> 0, ss |-> 0]

\* The marker text of form f for mm:ss.
Marker(f, mm, ss) == [kind |-> f, mm |-> mm, ss |-> ss]

\* ![](IMAGE_BASE_URL/<file of frame idx>)
Img(idx) == [kind |-> "img", mm |-> 0, ss |-> idx]

DocTokens == {PlainText} \cup {Marker(f, st[1], st[2]) : f \in Forms,
                                                        st \in Stamps}

\* The markdown texts explored.
Docs == UNION {[1..n -> DocTokens] : n \in 0..MaxDocLen}

\* Longest full text and longest markdown, in characters; longest segment
\* text; most segments of a transcript.
MaxTextLen == 2
MaxSegTextLen == 1
MaxSegments == 2

\* The characters told apart: an ordinary one, carriage return, line feed.
Chars == {"a", "CR", "LF"}

Strings(n) == UNION {[1..k -> Chars] : k \in 0..n}

\* TranscriptSegment(start, end, text), the i-th one spanning [i-1, i].
SegmentSeqs ==
    UNION {{[i \in 1..n |-> [start |-> i - 1, end |-> i, text |-> f[i]]] :
               f \in [1..n -> Strings(MaxSegTextLen)]} : n \in 0..MaxSegments}

\* TranscriptResult(language, full_text, segments) as a transcriber
\* returns it.
Transcripts ==
    [language : {"zh", "en"}, full_text : Strings(MaxTextLen),
     segments : SegmentSeqs]

NoTranscript == [language |-> "", full_text |-> <<>>, segments |-> <<>>]

NoXFile == [json |-> NoTranscript, text |-> <<>>]

NoXBack == [transcript |-> NoTranscript, markdown |-> <<>>]

\* No text function is being applied.
XQuiet ==
    /\ xop = "none"
    /\ xpc = "start"
    /\ xdoc = <<>>
    /\ xmd = <<>>
    /\ xcalls = <<>>
    /\ xtr = NoTranscript
    /\ xtext = <<>>
    /\ xfile = NoXFile
    /\ xback = NoXBack

\* -------------------------------------------------------------------- Init

PInit ==
    /\ cliMode \in BOOLEAN
    /\ files = [t \in Tasks |-> NoFiles]
    /\ video_path = 0
    /\ video_img_urls = <<>>
    /\ db = {}
    /\ pc = [p \in Procs |-> "idle"]
    /\ req = [p \in Procs |-> NoReq]
    /\ loc = [p \in Procs |-> InitLoc]
    /\ trace = [p \in Procs |-> <<>>]
    /\ result = [p \in Procs |-> Pending]
    /\ runs = 0
    /\ ghost = [p \in Procs |-> InitGhost]
    /\ hist = [t \in Tasks |-> InitHist]

\* The registry is not touched while the pipeline is explored.
RQuiet ==
    /\ mlxAvailable = FALSE
    /\ whisperLoaded = TRUE
    /\ transcribers = [k \in TranscriberType |-> 0]
    /\ made = [k \in TranscriberType |-> {}]
    /\ broke = {}
    /\ tpc = [th \in Threads |-> "idle"]
    /\ treq = [th \in Threads |-> NoTReq]
    /\ tobs = [th \in Threads |-> NoTObs]
    /\ requests = 0

Init == PInit /\ RQuiet /\ EInit /\ CInit /\ XQuiet

\* ------------------------------------------------------- generate: start

\* generate is entered with arguments a (the mode override is Eff).
Enter(p, a) ==
    /\ pc[p] = "idle"
    /\ runs < MaxRuns
    /\ runs' = runs + 1
    /\ pc' = [pc EXCEPT ![p] = "get_downloader"]
    /\ req' = [req EXCEPT ![p] = a]
    /\ loc' = [loc EXCEPT ![p] = InitLoc]
    /\ trace' = [trace EXCEPT ![p] = <<>>]
    /\ result' = [result EXCEPT ![p] = Pending]
    /\ ghost' = [ghost EXCEPT ![p] =
                    [run |-> runs + 1, nth |-> hist[a.task_id].n + 1,
                     completed |-> {}, raised |-> "none",
                     preFiles |-> files[a.task_id],
                     preResumable |-> hist[a.task_id].resumable,
                     torn |-> {}, grids |-> <<>>, usedVideo |-> 0]]
    /\ UNCHANGED <<files, db, hist>>

\* A caller invokes generate on the NoteGenerator it holds.
Generate(p, a) ==
    /\ Enter(p, a)
    /\ UNCHANGED <<cliMode, video_path, video_img_urls>>
    /\ PFrame

\* downloader = self._get_downloader(platform)
GetDownloader(p) ==
    /\ pc[p] = "get_downloader"
    /\ IF req[p].platform_ok
       THEN /\ pc' = [pc EXCEPT ![p] = "get_gpt"]
            /\ UNCHANGED <<loc, result, ghost, hist>>
       ELSE Raise(p, "Initialize", hist)
    /\ UNCHANGED <<cliMode, files, video_path, video_img_urls, db, req,
                   trace, runs>>
    /\ PFrame

\* if summary and model_name and provider_id: gpt = self._get_gpt(...)
GetGpt(p) ==
    /\ pc[p] = "get_gpt"
    /\ IF Eff(p).summary /\ req[p].model
       THEN \/ /\ loc' = [loc EXCEPT ![p].gpt = TRUE]
               /\ pc' = [pc EXCEPT ![p] = "download_check"]
               /\ UNCHANGED <<result, ghost, hist>>
            \/ /\ Raise(p, "Initialize", hist)
       ELSE /\ pc' = [pc EXCEPT ![p] = "download_check"]
            /\ UNCHANGED <<loc, result, ghost, hist>>
    /\ UNCHANGED <<cliMode, files, video_path, video_img_urls, db, req,
                   trace, runs>>
    /\ PFrame

\* ----------------------------------------------------- stage 1: Download

\* _download_media: the cache check, and the read on a hit.
DownloadCheck(p) ==
    LET f == files[req[p].task_id]["Download"]
    IN  /\ pc[p] = "download_check"
        /\ IF AudioCacheHit(f)
           THEN /\ trace' = Log(p, "audio_read")
                /\ IF JsonWellFormed(f.data)
                   THEN /\ loc' = [loc EXCEPT
                                     ![p].audio_meta = JsonLoad(f.data)]
                        /\ pc' = [pc EXCEPT ![p] = AfterDownload(p)]
                        /\ ghost' = Hit(p, "Download", f.data)
                        /\ UNCHANGED <<result, hist>>
                   ELSE /\ Raise(p, "Download", hist)
           ELSE /\ pc' = [pc EXCEPT ![p] =
                            IF NeedVideo(Eff(p)) THEN "download_video"
                            ELSE "download"]
                /\ UNCHANGED <<loc, trace, result, ghost, hist>>
        /\ UNCHANGED <<cliMode, files, video_path, video_img_urls, db, req,
                       runs>>
        /\ PFrame

\* self.video_path = Path(downloader.download_video(video_url))
DownloadVideo(p) ==
    /\ pc[p] = "download_video"
    /\ trace' = Log(p, "download_video")
    /\ \/ /\ video_path' = ghost[p].run
          /\ pc' = [pc EXCEPT ![p] =
                      IF req[p].grid THEN "video_reader" ELSE "download"]
          /\ UNCHANGED <<loc, result, ghost, hist>>
       \/ /\ Raise(p, "Download", hist)
          /\ UNCHANGED video_path
    /\ UNCHANGED <<cliMode, files, video_img_urls, db, req, runs>>
    /\ PFrame

\* self.video_img_urls = VideoReader(...).run()
RunVideoReader(p) ==
    /\ pc[p] = "video_reader"
    /\ trace' = Log(p, "video_reader")
    /\ \/ /\ video_img_urls' = <<video_path>>
          /\ pc' = [pc EXCEPT ![p] = "download"]
          /\ UNCHANGED <<loc, result, ghost, hist>>
       \/ /\ Raise(p, "Download", hist)
          /\ UNCHANGED video_img_urls
    /\ UNCHANGED <<cliMode, files, video_path, db, req, runs>>
    /\ PFrame

\* audio = downloader.download(...)
DownloadAudio(p) ==
    /\ pc[p] = "download"
    /\ trace' = Log(p, "download")
    /\ \/ /\ loc' = [loc EXCEPT ![p].audio_meta = AudioOf(ghost[p].run),
                             ![p].wpos = -1]
          /\ pc' = [pc EXCEPT ![p] = "audio_write"]
          /\ hist' = Called(req[p].task_id, "Download")
          /\ UNCHANGED <<result, ghost>>
       \/ /\ Raise(p, "Download", Called(req[p].task_id, "Download"))
    /\ UNCHANGED <<cliMode, files, video_path, video_img_urls, db, req,
                   runs>>
    /\ PFrame

\* Path.write_text(doc): open for writing (create or truncate), write the
\* document chunk by chunk at the writer's own offset, close.  Any step may
\* raise OSError, which leaves what was written so far.
WriteStep(p, s, doc, event, nextpc) ==
    LET t == req[p].task_id
        f == files[t][s]
        w == loc[p].wpos
        last == (w = -1 /\ Len(doc) = 0) \/ (w >= 0 /\ w + 1 = Len(doc))
    IN  \/ /\ files' = [files EXCEPT ![t][s] =
                          IF w = -1
                          THEN [exists |-> TRUE, data |-> <<>>]
                          ELSE [exists |-> TRUE,
                                data |-> WriteAt(f.data, w, doc[w + 1])]]
           /\ trace' = IF w = -1 THEN Log(p, event) ELSE trace
           /\ loc' = [loc EXCEPT ![p].wpos = IF last THEN -1 ELSE w + 1]
           /\ pc' = [pc EXCEPT ![p] = IF last THEN nextpc ELSE @]
           /\ ghost' = IF last THEN Completed(p, s) ELSE ghost
           /\ UNCHANGED <<result, hist>>
        \/ /\ Raise(p, s, hist)
           /\ UNCHANGED <<files, trace>>

\* audio_cache_file.write_text(json.dumps(asdict(audio), ...))
WriteAudioCache(p) ==
    /\ pc[p] = "audio_write"
    /\ WriteStep(p, "Download", JsonDump(loc[p].audio_meta), "audio_write",
                 AfterDownload(p))
    /\ UNCHANGED <<cliMode, video_path, video_img_urls, db, req, runs>>
    /\ PFrame

\* --------------------------------------------------- stage 2: Transcribe

\* _transcribe_audio: the cache check, and the read on a hit.
TranscribeCheck(p) ==
    LET f == files[req[p].task_id]["Transcribe"]
    IN  /\ pc[p] = "transcribe_check"
        /\ IF TranscriptCacheHit(f)
           THEN /\ trace' = Log(p, "transcript_read")
                /\ IF JsonWellFormed(f.data)
                   THEN /\ loc' = [loc EXCEPT
                                     ![p].transcript = JsonLoad(f.data)]
                        /\ pc' = [pc EXCEPT ![p] =
                                    AfterTranscribe(p, JsonLoad(f.data))]
                        /\ ghost' = Hit(p, "Transcribe", f.data)
                        /\ UNCHANGED <<result, hist>>
                   ELSE /\ Raise(p, "Transcribe", hist)
           ELSE /\ pc' = [pc EXCEPT ![p] = "transcribe"]
                /\ UNCHANGED <<loc, trace, result, ghost, hist>>
        /\ UNCHANGED <<cliMode, files, video_path, video_img_urls, db, req,
                       runs>>
        /\ PFrame

\* Mutant: the transcript cache file is opened for writing before the
\* transcriber is called, so a failed transcription leaves an empty file.
Transcribe_OpenFirst(p) ==
    LET t == req[p].task_id
    IN  /\ pc[p] = "transcribe"
        /\ trace' = Log(p, "transcript")
        /\ files' = [files EXCEPT
                       ![t]["Transcribe"] = [exists |-> TRUE, data |-> <<>>]]
        /\ \/ /\ loc' = [loc EXCEPT
                             ![p].transcript = TranscriptOf(ghost[p].run),
                             ![p].wpos = 0]
              /\ pc' = [pc EXCEPT ![p] = "transcript_write"]
              /\ hist' = Called(t, "Transcribe")
              /\ UNCHANGED <<result, ghost>>
           \/ /\ Raise(p, "Transcribe", Called(t, "Transcribe"))
        /\ UNCHANGED <<cliMode, video_path, video_img_urls, db, req, runs>>
        /\ PFrame

\* transcript = self.transcriber.transcript(file_path=audio_file)
Transcribe(p) ==
    /\ pc[p] = "transcribe"
    /\ trace' = Log(p, "transcript")
    /\ \/ /\ loc' = [loc EXCEPT
                       ![p].transcript = TranscriptOf(ghost[p].run),
                       ![p].wpos = -1]
          /\ pc' = [pc EXCEPT ![p] = "transcript_write"]
          /\ hist' = Called(req[p].task_id, "Transcribe")
          /\ UNCHANGED <<result, ghost>>
       \/ /\ Raise(p, "Transcribe", Called(req[p].task_id, "Transcribe"))
    /\ UNCHANGED <<cliMode, files, video_path, video_img_urls, db, req,
                   runs>>
    /\ PFrame

\* transcript_cache_file.write_text(json.dumps(asdict(transcript), ...))
WriteTranscriptCache(p) ==
    /\ pc[p] = "transcript_write"
    /\ WriteStep(p, "Transcribe", JsonDump(loc[p].transcript),
                 "transcript_write", AfterTranscribe(p, loc[p].transcript))
    /\ UNCHANGED <<cliMode, video_path, video_img_urls, db, req, runs>>
    /\ PFrame

\* ---------------------------------------------------- stage 3: Summarize

\* generate calls _summarize_text(..., self.video_img_urls), which binds
\* the frame grids the instance holds at that moment (ghost.grids), then
\* the cache check; a hit returns the file's text as is.
SummarizeCheck(p) ==
    LET f == files[req[p].task_id]["Summarize"]
    IN  /\ pc[p] = "summarize_check"
        /\ IF MarkdownCacheHit(f)
           THEN /\ trace' = Log(p, "md_read")
                /\ loc' = [loc EXCEPT ![p].markdown = f.data]
                /\ pc' = [pc EXCEPT ![p] = AfterSummarize(p)]
                /\ ghost' = [Hit(p, "Summarize", f.data) EXCEPT
                                ![p].grids = video_img_urls]
           ELSE /\ pc' = [pc EXCEPT ![p] = "summarize"]
                /\ ghost' = [ghost EXCEPT ![p].grids = video_img_urls]
                /\ UNCHANGED <<loc, trace>>
        /\ UNCHANGED <<cliMode, files, video_path, video_img_urls, db, req,
                       result, runs, hist>>
        /\ PFrame

\* markdown = gpt.summarize(source)
Summarize(p) ==
    /\ pc[p] = "summarize"
    /\ trace' = Log(p, "summarize")
    /\ \/ /\ loc' = [loc EXCEPT ![p].markdown = MarkdownOf(ghost[p].run),
                             ![p].wpos = -1]
          /\ pc' = [pc EXCEPT ![p] = "markdown_write"]
          /\ hist' = Called(req[p].task_id, "Summarize")
          /\ UNCHANGED <<result, ghost>>
       \/ /\ Raise(p, "Summarize", Called(req[p].task_id, "Summarize"))
    /\ UNCHANGED <<cliMode, files, video_path, video_img_urls, db, req,
                   runs>>
    /\ PFrame

\* markdown_cache_file.write_text(markdown, encoding="utf-8")
WriteMarkdownCache(p) ==
    /\ pc[p] = "markdown_write"
    /\ WriteStep(p, "Summarize", loc[p].markdown, "md_write",
                 AfterSummarize(p))
    /\ UNCHANGED <<cliMode, video_path, video_img_urls, db, req, runs>>
    /\ PFrame

\* -------------------------------------------------- stage 4: PostProcess

\* k copies of event e.
Repeat(e, k) == [i \in 1..k |-> e]

\* _extract_screenshot_timestamps: how many screenshot markers md holds.
Markers(md) == Cardinality({i \in 1..Len(md) : md[i] \in ShotMarkers})

\* _insert_screenshots: every marker replaced by its image reference.
InsertedScreenshots(md) ==
    [i \in 1..Len(md) |-> IF md[i] \in ShotMarkers THEN "img" ELSE md[i]]

\* replace_content_markers: every link marker replaced by its deep link.
ReplaceContentMarkers(md) ==
    [i \in 1..Len(md) |-> IF md[i] = "link" THEN "url" ELSE md[i]]

\* markdown = self._insert_screenshots(markdown, video_path): one
\* generate_screenshot(str(video_path), ...) call per marker, on the video
\* the instance holds (ghost.usedVideo); the k-th call may raise.
InsertScreenshots(p) ==
    LET md == loc[p].markdown
        n == Markers(md)
        g == [ghost EXCEPT ![p].usedVideo = IF n > 0 THEN video_path ELSE @]
    IN  /\ pc[p] = "insert_screenshots"
        /\ \/ /\ trace' = [trace EXCEPT ![p] = @ \o Repeat("screenshot", n)]
              /\ loc' = [loc EXCEPT ![p].markdown = InsertedScreenshots(md)]
              /\ pc' = [pc EXCEPT ![p] = AfterScreenshots(p)]
              /\ ghost' = g
              /\ UNCHANGED <<result, hist>>
           \/ \E k \in 1..n :
                /\ trace' = [trace EXCEPT
                               ![p] = @ \o Repeat("screenshot", k)]
                /\ RaiseFrom(p, "PostProcess", hist, g)
        /\ UNCHANGED <<cliMode, files, video_path, video_img_urls, db, req,
                       runs>>
        /\ PFrame

\* markdown = replace_content_markers(markdown, video_id=..., platform=...)
ReplaceLinks(p) ==
    /\ pc[p] = "replace_links"
    /\ trace' = Log(p, "link")
    /\ \/ /\ loc' = [loc EXCEPT
                       ![p].markdown = ReplaceContentMarkers(loc[p].markdown)]
          /\ pc' = [pc EXCEPT ![p] = AfterPostProcess]
          /\ UNCHANGED <<result, ghost, hist>>
       \/ /\ Raise(p, "PostProcess", hist)
    /\ UNCHANGED <<cliMode, files, video_path, video_img_urls, db, req,
                   runs>>
    /\ PFrame

\* ----------------------------------------------------- stage 5: Finalize

\* self._save_metadata(audio_meta.video_id, platform, task_id)
SaveMetadata(p) ==
    /\ pc[p] = "save_metadata"
    /\ trace' = Log(p, "save_metadata")
    /\ \/ /\ db' = db \cup {req[p].task_id}
          /\ pc' = [pc EXCEPT ![p] = "return"]
          /\ UNCHANGED <<loc, result, ghost, hist>>
       \/ /\ Raise(p, "Finalize", hist)
          /\ UNCHANGED db
    /\ UNCHANGED <<cliMode, files, video_path, video_img_urls, req, runs>>
    /\ PFrame

\* return NoteResult(markdown=markdown, transcript=transcript, ...)
Return(p) ==
    /\ pc[p] = "return"
    /\ pc' = [pc EXCEPT ![p] = "done"]
    /\ result' = [result EXCEPT ![p] =
                     NoteResult(loc[p].markdown, loc[p].transcript,
                                loc[p].audio_meta)]
    /\ hist' = Leave(p, hist, "none")
    /\ loc' = [loc EXCEPT ![p] = InitLoc]
    /\ UNCHANGED <<cliMode, files, video_path, video_img_urls, db, req,
                   trace, runs, ghost>>
    /\ PFrame

\* The process is killed while generate runs: no caller gets anything back,
\* the files stay as they are, and later calls are served by a new process
\* with a new NoteGenerator.
Crash ==
    LET dead == {p \in Procs : pc[p] \notin {"idle", "done"}}
        deadOf(t) == {p \in dead : req[p].task_id = t}
    IN  /\ dead # {}
        /\ pc' = [p \in Procs |-> "idle"]
        /\ hist' = [t \in Tasks |->
                      [hist[t] EXCEPT
                         !.n = @ + Cardinality(deadOf(t)),
                         !.resumable =
                             @ \cup UNION {ghost[p].completed :
                                              p \in deadOf(t)}]]
        /\ video_path' = 0
        /\ video_img_urls' = <<>>
        /\ req' = [p \in Procs |-> NoReq]
        /\ loc' = [p \in Procs |-> InitLoc]
        /\ trace' = [p \in Procs |-> <<>>]
        /\ result' = [p \in Procs |-> Pending]
        /\ ghost' = [p \in Procs |-> InitGhost]
        /\ UNCHANGED <<cliMode, files, db, runs>>
        /\ PFrame

\* The caller has taken what generate returned; the frame is gone.
Drop(p) ==
    /\ pc[p] = "done"
    /\ pc' = [pc EXCEPT ![p] = "idle"]
    /\ req' = [req EXCEPT ![p] = NoReq]
    /\ loc' = [loc EXCEPT ![p] = InitLoc]
    /\ trace' = [trace EXCEPT ![p] = <<>>]
    /\ result' = [result EXCEPT ![p] = Pending]
    /\ ghost' = [ghost EXCEPT ![p] = InitGhost]
    /\ UNCHANGED <<cliMode, files, video_path, video_img_urls, db, runs,
                   hist>>

\* A caller of the service takes the result and may call again.
Release(p) ==
    /\ Drop(p)
    /\ PFrame

\* -------------------------------------------------------------------- Next

\* No caller is inside generate.
Quiet == \A q \in Procs : pc[q] \in {"idle", "done"}

\* One step of caller p's invocation inside generate.
Stage(p) ==
    \/ GetDownloader(p)
    \/ GetGpt(p)
    \/ DownloadCheck(p)
    \/ DownloadVideo(p)
    \/ RunVideoReader(p)
    \/ DownloadAudio(p)
    \/ WriteAudioCache(p)
    \/ TranscribeCheck(p)
    \/ Transcribe(p)
    \/ WriteTranscriptCache(p)
    \/ SummarizeCheck(p)
    \/ Summarize(p)
    \/ WriteMarkdownCache(p)
    \/ InsertScreenshots(p)
    \/ ReplaceLinks(p)
    \/ SaveMetadata(p)
    \/ Return(p)

\* One step of caller p: inside generate, or taking its result.
Step(p) ==
    \/ Stage(p)
    \/ Release(p)

\* Invocations of generate one after another on one NoteGenerator.
Next ==
    \/ \E a \in ReqSet : Quiet /\ Generate("p1", a)
    \/ Step("p1")

Spec == Init /\ [][Next]_vars

\* The requests explored when invocations overlap: everything asked for,
\* or transcription and summary alone.
ConcReqSet ==
    {a \in ReqSet :
        /\ a.platform_ok /\ a.model /\ a.summary /\ a.transcribe
        /\ \/ /\ a.screenshot /\ a.video_understanding /\ a.grid
              /\ a.formats = {"screenshot", "link"}
           \/ /\ ~a.screenshot /\ ~a.video_understanding /\ ~a.grid
              /\ a.formats = {}}

\* Invocations of generate for one task overlapping in any interleaving,
\* and the process dying at any point.
ConcNext ==
    \/ \E p \in Procs : \E a \in ConcReqSet : Generate(p, a)
    \/ \E p \in Procs : Step(p)
    \/ Crash

SpecConcurrent == Init /\ [][ConcNext]_vars

\* ------------------------------------------- get_transcriber, per thread

\* Number of get_transcriber requests explored in one behaviour.
MaxRequests == 3

\* get_transcriber: TranscriberType(transcriber_type), fast-whisper on
\* ValueError.
ParseType(token) ==
    IF token \in TranscriberType THEN token ELSE "fast-whisper"

\* The class handed to _init_transcriber exists (WhisperTranscriber is None
\* when its import failed).
ClassLoaded(key) == key = "fast-whisper" => whisperLoaded

\* Mutant: a request for mlx-whisper is served from its own slot even when
\* MLX is unavailable.
Dispatch_NoFallback(token) == ParseType(token)

\* get_transcriber: the registry key the request is served from.
Dispatch(token) ==
    LET e == ParseType(token)
    IN  IF e = "mlx-whisper" /\ ~mlxAvailable THEN "fast-whisper" ELSE e

\* Mutant: a failed construction is remembered in the slot.
OnConstructFailure_Memoize(key) ==
    [transcribers EXCEPT ![key] = Raised]

\* _init_transcriber, `except Exception: ... raise`: the slot as the
\* failed construction leaves it.
OnConstructFailure(key) == transcribers

\* get_transcriber(transcriber_type=token) is entered by thread th, called
\* directly or through NoteGenerator (via).
Request(th, token, via) ==
    /\ tpc[th] \in {"idle", "done"}
    /\ requests < MaxRequests
    /\ requests' = requests + 1
    /\ treq' = [treq EXCEPT ![th] =
                   [token |-> token, key |-> Dispatch(token), inst |-> 0,
                    ret |-> 0]]
    /\ tobs' = [tobs EXCEPT ![th] =
                   [NoTObs EXCEPT !.afterFailure = Dispatch(token) \in broke,
                                  !.via = via]]
    /\ tpc' = [tpc EXCEPT ![th] = "check"]
    /\ UNCHANGED <<mlxAvailable, whisperLoaded, transcribers, made, broke>>

\* get_transcriber(transcriber_type=token), called directly.
GetTranscriber(th, token) ==
    /\ Request(th, token, "get_transcriber")
    /\ RFrame

\* NoteGenerator._init_transcriber: `self.transcriber_type in _transcribers`.
KnownType(token) == token \in TranscriberType

\* NoteGenerator.__init__ with TRANSCRIBER_TYPE = token: _init_transcriber
\* raises for a type that is no key of _transcribers and calls
\* get_transcriber otherwise.
InitTranscriber(th, token) ==
    /\ IF KnownType(token)
       THEN Request(th, token, "NoteGenerator")
       ELSE /\ tpc[th] \in {"idle", "done"}
            /\ requests < MaxRequests
            /\ requests' = requests + 1
            /\ treq' = [treq EXCEPT ![th] =
                           [token |-> token, key |-> Dispatch(token),
                            inst |-> 0, ret |-> Raised]]
            /\ tobs' = [tobs EXCEPT ![th] =
                           [NoTObs EXCEPT !.via = "NoteGenerator",
                                          !.rejected = TRUE]]
            /\ tpc' = [tpc EXCEPT ![th] = "done"]
            /\ UNCHANGED <<mlxAvailable, whisperLoaded, transcribers, made,
                           broke>>
    /\ RFrame

\* _init_transcriber: `if _transcribers[key] is None`, then the log line
\* that reads cls.__name__.
CheckSlot(th) ==
    LET key == treq[th].key
    IN  /\ tpc[th] = "check"
        /\ IF transcribers[key] = 0
           THEN /\ tobs' = [tobs EXCEPT ![th].sawEmpty = TRUE]
                /\ IF ClassLoaded(key)
                   THEN /\ tpc' = [tpc EXCEPT ![th] = "construct"]
                        /\ UNCHANGED treq
                   ELSE /\ tpc' = [tpc EXCEPT ![th] = "done"]
                        /\ treq' = [treq EXCEPT ![th].ret = Raised]
           ELSE /\ tpc' = [tpc EXCEPT ![th] = "return"]
                /\ UNCHANGED <<treq, tobs>>
        /\ UNCHANGED <<mlxAvailable, whisperLoaded, transcribers, made,
                       broke, requests>>
        /\ RFrame

\* _init_transcriber: cls(*args, **kwargs), which may raise.
Construct(th) ==
    LET key == treq[th].key
        id == 1 + Cardinality(UNION {made[k] : k \in TranscriberType})
    IN  /\ tpc[th] = "construct"
        /\ \/ /\ made' = [made EXCEPT ![key] = @ \cup {id}]
              /\ treq' = [treq EXCEPT ![th].inst = id]
              /\ tobs' = [tobs EXCEPT ![th].attempted = TRUE]
              /\ tpc' = [tpc EXCEPT ![th] = "store"]
              /\ UNCHANGED <<transcribers, broke>>
           \/ /\ transcribers' = OnConstructFailure(key)
              /\ treq' = [treq EXCEPT ![th].ret = Raised]
              /\ tobs' = [tobs EXCEPT ![th].attempted = TRUE,
                                      ![th].failed = TRUE]
              /\ tpc' = [tpc EXCEPT ![th] = "done"]
              /\ broke' = broke \cup {key}
              /\ UNCHANGED made
        /\ UNCHANGED <<mlxAvailable, whisperLoaded, requests>>
        /\ RFrame

\* _init_transcriber: _transcribers[key] = <the new instance>
Store(th) ==
    /\ tpc[th] = "store"
    /\ transcribers' = [transcribers EXCEPT ![treq[th].key] = treq[th].inst]
    /\ tpc' = [tpc EXCEPT ![th] = "return"]
    /\ UNCHANGED <<mlxAvailable, whisperLoaded, made, broke, treq, tobs,
                   requests>>
    /\ RFrame

\* _init_transcriber: return _transcribers[key]
ReturnSlot(th) ==
    /\ tpc[th] = "return"
    /\ treq' = [treq EXCEPT ![th].ret = transcribers[treq[th].key]]
    /\ tpc' = [tpc EXCEPT ![th] = "done"]
    /\ UNCHANGED <<mlxAvailable, whisperLoaded, transcribers, made, broke,
                   tobs, requests>>
    /\ RFrame

\* The registry as the module import leaves it, in any runtime.
RInit ==
    /\ mlxAvailable \in BOOLEAN
    /\ whisperLoaded \in BOOLEAN
    /\ transcribers = [k \in TranscriberType |-> 0]
    /\ made = [k \in TranscriberType |-> {}]
    /\ broke = {}
    /\ tpc = [th \in Threads |-> "idle"]
    /\ treq = [th \in Threads |-> NoTReq]
    /\ tobs = [th \in Threads |-> NoTObs]
    /\ requests = 0

\* The pipeline is not running while the registry is explored.
PQuiet ==
    /\ cliMode = FALSE
    /\ files = [t \in Tasks |-> NoFiles]
    /\ video_path = 0
    /\ video_img_urls = <<>>
    /\ db = {}
    /\ pc = [p \in Procs |-> "idle"]
    /\ req = [p \in Procs |-> NoReq]
    /\ loc = [p \in Procs |-> InitLoc]
    /\ trace = [p \in Procs |-> <<>>]
    /\ result = [p \in Procs |-> Pending]
    /\ runs = 0
    /\ ghost = [p \in Procs |-> InitGhost]
    /\ hist = [t \in Tasks |-> InitHist]

RegInit == PQuiet /\ RInit /\ EInit /\ CInit /\ XQuiet

\* Threads calling get_transcriber in any interleaving.
RegNext ==
    \E th \in Threads :
        \/ \E token \in Tokens : GetTranscriber(th, token)
        \/ \E token \in Tokens : InitTranscriber(th, token)
        \/ CheckSlot(th)
        \/ Construct(th)
        \/ Store(th)
        \/ ReturnSlot(th)

SpecRegistry == RegInit /\ [][RegNext]_vars

\* ------------------------------------------------------- save_cli_result

\* tmp_path = final_path + ".tmp": one name for every call.
TmpPath(w) == "result.json.tmp"

\* save_cli_result(bvid, payload) is entered; os.makedirs(exist_ok=True).
BeginSave(w, payload) ==
    /\ wpc[w] \in {"idle", "done"}
    /\ saves < MaxSaves
    /\ saves' = saves + 1
    /\ wst' = [wst EXCEPT ![w] =
                  [NoWst EXCEPT !.doc = ResultDoc(payload, saves + 1)]]
    /\ wpc' = [wpc EXCEPT ![w] = "open"]
    /\ UNCHANGED <<dirent, inode, seen>>

\* Some process calls save_cli_result for the bvid.
SaveCliResult(w, payload) ==
    /\ BeginSave(w, payload)
    /\ EFrame

\* open(tmp_path, "w"): creates the file, or truncates the one the name
\* already leads to; may raise OSError, which the except branch reports.
OpenTmp(w) ==
    LET n == TmpPath(w)
        fresh == CHOOSE i \in Inodes :
                     /\ \A m \in Names : dirent[m] # i
                     /\ \A v \in Writers : wst[v].fd # i
        i == IF dirent[n] = 0 THEN fresh ELSE dirent[n]
    IN  /\ wpc[w] = "open"
        /\ \/ /\ dirent' = [dirent EXCEPT ![n] = i]
              /\ inode' = [inode EXCEPT ![i] = <<>>]
              /\ wst' = [wst EXCEPT ![w].fd = i, ![w].off = 0]
              /\ wpc' = [wpc EXCEPT ![w] = "dump"]
           \/ /\ wst' = [wst EXCEPT ![w].status = "ERROR_WRITE"]
              /\ wpc' = [wpc EXCEPT ![w] = "done"]
              /\ UNCHANGED <<dirent, inode>>
        /\ UNCHANGED <<seen, saves>>
        /\ EFrame

\* json.dump: the next chunk reaches the file at the handle's offset; after
\* the last one the with block closes the handle.  A write may raise.
DumpChunk(w) ==
    LET st == wst[w]
        last == st.off + 1 = Len(st.doc)
    IN  /\ wpc[w] = "dump"
        /\ \/ /\ inode' = [inode EXCEPT ![st.fd] =
                                WriteAt(@, st.off, st.doc[st.off + 1])]
              /\ wst' = [wst EXCEPT ![w].off = @ + 1,
                                    ![w].fd = IF last THEN 0 ELSE @]
              /\ wpc' = [wpc EXCEPT ![w] = IF last THEN "replace" ELSE @]
           \/ /\ wst' = [wst EXCEPT ![w].status = "ERROR_WRITE",
                                    ![w].fd = 0]
              /\ wpc' = [wpc EXCEPT ![w] = "done"]
              /\ UNCHANGED inode
        /\ UNCHANGED <<dirent, seen, saves>>
        /\ EFrame

\* os.replace(tmp_path, final_path): the final name now leads to the inode
\* the temporary name led to; FileNotFoundError when that name is gone.
Replace(w) ==
    LET n == TmpPath(w)
    IN  /\ wpc[w] = "replace"
        /\ IF dirent[n] # 0
           THEN /\ dirent' = [dirent EXCEPT !["result.json"] = dirent[n],
                                            ![n] = 0]
                /\ wst' = [wst EXCEPT ![w].status = "WRITTEN"]
           ELSE /\ wst' = [wst EXCEPT ![w].status = "ERROR_WRITE"]
                /\ UNCHANGED dirent
        /\ wpc' = [wpc EXCEPT ![w] = "done"]
        /\ UNCHANGED <<inode, seen, saves>>
        /\ EFrame

\* The consumer opens result.json and reads it to the end.
ReadResult ==
    /\ seen' = IF dirent["result.json"] = 0
               THEN [kind |-> "absent", data |-> <<>>]
               ELSE [kind |-> "doc", data |-> inode[dirent["result.json"]]]
    /\ UNCHANGED <<dirent, inode, wpc, wst, saves>>
    /\ EFrame

\* Processes writing the result of one bvid, and its consumer, in any
\* interleaving.
EmitNext ==
    \/ \E w \in Writers : \E payload \in Payloads : SaveCliResult(w, payload)
    \/ \E w \in Writers : OpenTmp(w)
    \/ \E w \in Writers : DumpChunk(w)
    \/ \E w \in Writers : Replace(w)
    \/ ReadResult

EmitInit == PQuiet /\ RQuiet /\ EInit /\ CInit /\ XQuiet

SpecEmitter == EmitInit /\ [][EmitNext]_vars

\* ------------------------------------------------- main.py, batch branch

\* The process starts with a video URL as argv[1], so main.IS_CLI_MODE is
\* true; e says whether its environment already has CLI_MODE=true.  No
\* module of the application is imported yet.
CliStart(e) ==
    /\ cpc = "off"
    /\ runs < MaxRuns
    /\ cpc' = "import_note"
    /\ envCli' = e
    /\ cliMode' = FALSE
    /\ noteOutputDir' = ServiceOutputDir
    /\ cpayload' = NoPayload
    /\ cobs' = NoCobs
    /\ UNCHANGED <<files, video_path, video_img_urls, db, pc, req, loc,
                   trace, result, runs, ghost, hist>>
    /\ UNCHANGED evars
    /\ CFrame

\* main.py line 29, `from app.services.note import NoteGenerator`: note.py
\* reads CLI_MODE from the environment and fixes NOTE_OUTPUT_DIR.
ImportNote ==
    /\ cpc = "import_note"
    /\ cliMode' = envCli
    /\ noteOutputDir' = IF envCli THEN BatchOutputDir ELSE ServiceOutputDir
    /\ cpc' = "inject_env"
    /\ UNCHANGED <<envCli, cpayload, cobs>>
    /\ UNCHANGED <<files, video_path, video_img_urls, db, pc, req, loc,
                   trace, result, runs, ghost, hist>>
    /\ UNCHANGED evars
    /\ CFrame

\* main.py lines 39-42, `if IS_CLI_MODE: os.environ["CLI_MODE"] = "true"`.
InjectEnv ==
    /\ cpc = "inject_env"
    /\ envCli' = TRUE
    /\ cpc' = "new_generator"
    /\ UNCHANGED <<noteOutputDir, cpayload, cobs>>
    /\ UNCHANGED <<pvars, evars>>
    /\ CFrame

\* generator = NoteGenerator(): a new instance, or an exception of its
\* __init__, which the entry point's except branch turns into a payload.
NewGenerator ==
    /\ cpc = "new_generator"
    /\ \/ /\ video_path' = 0
          /\ video_img_urls' = <<>>
          /\ cpc' = "call_generate"
          /\ UNCHANGED <<cpayload, cobs>>
       \/ /\ cpayload' = ErrorPayload(ErrMsg("Construct"))
          /\ cobs' = [cobs EXCEPT !.raised = "Construct"]
          /\ cpc' = "save"
          /\ UNCHANGED <<video_path, video_img_urls>>
    /\ UNCHANGED <<envCli, noteOutputDir>>
    /\ UNCHANGED <<cliMode, files, db, pc, req, loc, trace, result, runs,
                   ghost, hist>>
    /\ UNCHANGED evars
    /\ CFrame

\* note_result = generator.generate(..., summary=False, transcribe=True)
CallGenerate ==
    /\ cpc = "call_generate"
    /\ Enter("p1", CliArgs)
    /\ cpc' = "in_generate"
    /\ UNCHANGED <<cliMode, video_path, video_img_urls>>
    /\ UNCHANGED <<envCli, noteOutputDir, cpayload, cobs>>
    /\ UNCHANGED evars
    /\ CFrame

\* `if not note_result or not note_result.transcript: raise RuntimeError`,
\* caught by `except Exception as e`, which builds error_payload with
\* str(e); otherwise result_payload is built.
CheckResult ==
    /\ cpc = "in_generate"
    /\ Drop("p1")
    /\ cpayload' = IF \/ result["p1"].kind = "None"
                      \/ result["p1"].transcript = None
                   THEN ErrorPayload(EmptyResultMsg)
                   ELSE SuccessPayload
    /\ cobs' = [cobs EXCEPT !.raised = ghost["p1"].raised]
    /\ cpc' = "save"
    /\ UNCHANGED <<envCli, noteOutputDir>>
    /\ UNCHANGED evars
    /\ CFrame

\* save_cli_result(bvid, result_payload) or save_cli_result(bvid,
\* error_payload)
CallSave ==
    /\ cpc = "save"
    /\ BeginSave("w1", cpayload.status)
    /\ cpc' = "saving"
    /\ UNCHANGED <<envCli, noteOutputDir, cpayload, cobs>>
    /\ UNCHANGED pvars
    /\ CFrame

\* sys.exit(0) after result_payload, sys.exit(1) after error_payload.
Exit ==
    /\ cpc = "saving"
    /\ wpc["w1"] = "done"
    /\ cobs' = [cobs EXCEPT
                   !.exit = IF cpayload.status = "SUCCESS" THEN 0 ELSE 1]
    /\ cpc' = "off"
    /\ UNCHANGED <<envCli, noteOutputDir, cpayload>>
    /\ UNCHANGED <<pvars, evars>>
    /\ CFrame

\* The steps of generate that the batch call's arguments can reach.
CliStage(p) ==
    \/ GetDownloader(p)
    \/ GetGpt(p)
    \/ DownloadCheck(p)
    \/ DownloadAudio(p)
    \/ WriteAudioCache(p)
    \/ TranscribeCheck(p)
    \/ Transcribe(p)
    \/ WriteTranscriptCache(p)
    \/ SaveMetadata(p)
    \/ Return(p)

\* Batch-mode processes for one bvid, one after another, and the consumer
\* of result.json.
CliNext ==
    \/ \E e \in BOOLEAN : CliStart(e)
    \/ ImportNote
    \/ InjectEnv
    \/ NewGenerator
    \/ CallGenerate
    \/ CliStage("p1")
    \/ CheckResult
    \/ CallSave
    \/ OpenTmp("w1")
    \/ DumpChunk("w1")
    \/ Replace("w1")
    \/ ReadResult
    \/ Exit

CliInit == PQuiet /\ RQuiet /\ EInit /\ CInit /\ XQuiet

SpecCli == CliInit /\ [][CliNext]_vars

\* -------------------------------------------------- _insert_screenshots

\* re.finditer(pattern, markdown): a token is matched iff it is a marker.
IsMarker(tok) == tok.kind \in Forms

\* _extract_screenshot_timestamps: (match.group(0), int(mm) * 60 + int(ss))
\* for every match, in the order finditer yields them.
RECURSIVE ExtractScreenshotTimestamps(_)
ExtractScreenshotTimestamps(md) ==
    IF md = <<>> THEN <<>>
    ELSE (IF IsMarker(Head(md))
          THEN <<[marker |-> Head(md),
                  ts |-> Head(md).mm * 60 + Head(md).ss]>>
          ELSE <<>>)
         \o ExtractScreenshotTimestamps(Tail(md))

\* Mutant: the last occurrence of the marker is replaced.
ReplaceFirst_Last(md, marker, r) ==
    IF \E i \in 1..Len(md) : md[i] = marker
    THEN LET i == CHOOSE k \in 1..Len(md) :
                      md[k] = marker
                      /\ \A j \in (k + 1)..Len(md) : md[j] # marker
         IN  [md EXCEPT ![i] = r]
    ELSE md

\* markdown.replace(marker, r, 1): the first occurrence of the marker text
\* is replaced, if there is one.
ReplaceFirst(md, marker, r) ==
    IF \E i \in 1..Len(md) : md[i] = marker
    THEN LET i == CHOOSE k \in 1..Len(md) :
                      md[k] = marker /\ \A j \in 1..(k - 1) : md[j] # marker
         IN  [md EXCEPT ![i] = r]
    ELSE md

\* _insert_screenshots: matches = self._extract_screenshot_timestamps(...)
ExtractStep ==
    /\ xop = "screenshots"
    /\ xpc = "start"
    /\ xmd' = xdoc
    /\ xpc' = IF ExtractScreenshotTimestamps(xdoc) = <<>>
              THEN "shots_done" ELSE "shots"
    /\ UNCHANGED <<xop, xdoc, xcalls, xtr, xtext, xfile, xback>>
    /\ XFrame

\* _insert_screenshots, one turn of `for idx, (marker, ts) in
\* enumerate(matches)`: generate_screenshot(video, dir, ts, idx), which may
\* raise, then markdown.replace(marker, image, 1).
ScreenshotStep ==
    LET matches == ExtractScreenshotTimestamps(xdoc)
        idx == Len(xcalls)
        m == matches[idx + 1]
    IN  /\ xop = "screenshots"
        /\ xpc = "shots"
        /\ xcalls' = Append(xcalls, [ts |-> m.ts, idx |-> idx])
        /\ \/ /\ xmd' = ReplaceFirst(xmd, m.marker, Img(idx))
              /\ xpc' = IF idx + 1 = Len(matches)
                        THEN "shots_done" ELSE "shots"
           \/ /\ xpc' = "shots_failed"
              /\ UNCHANGED xmd
        /\ UNCHANGED <<xop, xdoc, xtr, xtext, xfile, xback>>
        /\ XFrame

\* ------------------------------------------------------ cache round trip

\* os.linesep of the platform the service runs on.
Linesep == <<"LF">>

\* Path.write_text(data, encoding="utf-8"): text mode with newline=None
\* writes every "\n" as os.linesep and everything else as it is.
RECURSIVE WriteText(_)
WriteText(t) ==
    IF t = <<>> THEN <<>>
    ELSE (IF Head(t) = "LF" THEN Linesep ELSE <<Head(t)>>)
         \o WriteText(Tail(t))

\* Path.read_text(encoding="utf-8"): text mode with newline=None reads
\* "\r\n" and a lone "\r" as "\n".
RECURSIVE ReadText(_)
ReadText(t) ==
    IF t = <<>> THEN <<>>
    ELSE IF Head(t) = "CR"
         THEN <<"LF">> \o ReadText(IF Len(t) > 1 /\ t[2] = "LF"
                                   THEN Tail(Tail(t)) ELSE Tail(t))
         ELSE <<Head(t)>> \o ReadText(Tail(t))

\* json.dumps of a str: a carriage return becomes the two characters \r,
\* a line feed the two characters \n.
JsonEscape(str) ==
    [i \in DOMAIN str |-> CASE str[i] = "CR" -> "\\r"
                            [] str[i] = "LF" -> "\\n"
                            [] OTHER -> str[i]]

\* json.loads of a string literal: the escapes \r and \n become the
\* characters they name.
JsonUnescape(lit) ==
    [i \in DOMAIN lit |-> CASE lit[i] = "\\r" -> "CR"
                            [] lit[i] = "\\n" -> "LF"
                            [] OTHER -> lit[i]]

\* json.dumps(asdict(transcript), ensure_ascii=False, indent=2): the JSON
\* text, member by member.
DumpsTranscript(t) ==
    [language |-> t.language,
     full_text |-> JsonEscape(t.full_text),
     segments |-> [i \in DOMAIN t.segments |->
                      [start |-> t.segments[i].start,
                       end |-> t.segments[i].end,
                       text |-> JsonEscape(t.segments[i].text)]]]

\* write_text, then read_text, of a JSON text: what they do to the
\* characters of its string literals.
WriteJson(j) ==
    [j EXCEPT !.full_text = WriteText(@),
              !.segments = [i \in DOMAIN @ |->
                               [@[i] EXCEPT !.text = WriteText(@)]]]

ReadJson(j) ==
    [j EXCEPT !.full_text = ReadText(@),
              !.segments = [i \in DOMAIN @ |->
                               [@[i] EXCEPT !.text = ReadText(@)]]]

\* json.loads(...), then TranscriptResult(language=data["language"],
\* full_text=data["full_text"], segments=[TranscriptSegment(**seg) ...]).
LoadsTranscript(j) ==
    [language |-> j.language,
     full_text |-> JsonUnescape(j.full_text),
     segments |-> [i \in DOMAIN j.segments |->
                      [start |-> j.segments[i].start,
                       end |-> j.segments[i].end,
                       text |-> JsonUnescape(j.segments[i].text)]]]

\* _transcribe_audio on a miss: the transcript is dumped to the cache file
\* and returned.
DumpTranscript ==
    /\ xop = "transcript"
    /\ xpc = "start"
    /\ xfile' = [xfile EXCEPT !.json = WriteJson(DumpsTranscript(xtr))]
    /\ xpc' = "written"
    /\ UNCHANGED <<xop, xdoc, xmd, xcalls, xtr, xtext, xback>>
    /\ XFrame

\* _transcribe_audio on a hit.
LoadTranscript ==
    /\ xop = "transcript"
    /\ xpc = "written"
    /\ xback' = [xback EXCEPT
                    !.transcript = LoadsTranscript(ReadJson(xfile.json))]
    /\ xpc' = "read"
    /\ UNCHANGED <<xop, xdoc, xmd, xcalls, xtr, xtext, xfile>>
    /\ XFrame

\* _summarize_text on a miss: markdown_cache_file.write_text(markdown).
DumpMarkdown ==
    /\ xop = "markdown"
    /\ xpc = "start"
    /\ xfile' = [xfile EXCEPT !.text = WriteText(xtext)]
    /\ xpc' = "written"
    /\ UNCHANGED <<xop, xdoc, xmd, xcalls, xtr, xtext, xback>>
    /\ XFrame

\* _summarize_text on a hit: return markdown_cache_file.read_text().
LoadMarkdown ==
    /\ xop = "markdown"
    /\ xpc = "written"
    /\ xback' = [xback EXCEPT !.markdown = ReadText(xfile.text)]
    /\ xpc' = "read"
    /\ UNCHANGED <<xop, xdoc, xmd, xcalls, xtr, xtext, xfile>>
    /\ XFrame

\* One text function, applied to one input drawn from the sets explored.
XInit ==
    /\ xpc = "start"
    /\ xmd = <<>>
    /\ xcalls = <<>>
    /\ xfile = NoXFile
    /\ xback = NoXBack
    /\ \/ xop = "screenshots" /\ xdoc \in Docs
          /\ xtr = NoTranscript /\ xtext = <<>>
       \/ xop = "transcript" /\ xtr \in Transcripts
          /\ xdoc = <<>> /\ xtext = <<>>
       \/ xop = "markdown" /\ xtext \in Strings(MaxTextLen)
          /\ xdoc = <<>> /\ xtr = NoTranscript

CodecInit == PQuiet /\ RQuiet /\ EInit /\ CInit /\ XInit

CodecNext ==
    \/ ExtractStep
    \/ ScreenshotStep
    \/ DumpTranscript
    \/ LoadTranscript
    \/ DumpMarkdown
    \/ LoadMarkdown

SpecCodec == CodecInit /\ [][CodecNext]_vars

\* ================================================================= claims

\* How often event e occurs in sequence q.
Count(q, e) == Cardinality({i \in 1..Len(q) : q[i] = e})

\* The external capability of each cached stage, as it appears in trace.
Capability(s) ==
    CASE s = "Download" -> "download"
      [] s = "Transcribe" -> "transcript"
      [] s = "Summarize" -> "summarize"

\* The position of a stage in the pipeline, and the stage of each event.
StageNo(s) ==
    CASE s = "Initialize" -> 0
      [] s = "Download" -> 1
      [] s = "Transcribe" -> 2
      [] s = "Summarize" -> 3
      [] s = "PostProcess" -> 4
      [] s = "Finalize" -> 5

EventStageNo(e) ==
    CASE e \in {"audio_read", "download_video", "video_reader", "download",
                "audio_write"} -> 1
      [] e \in {"transcript_read", "transcript", "transcript_write"} -> 2
      [] e \in {"md_read", "summarize", "md_write"} -> 3
      [] e \in {"screenshot", "link"} -> 4
      [] e = "save_metadata" -> 5

\* Caller p is inside generate or has just left it.
Active(p) == pc[p] # "idle"

\* C1 (as stated): over two invocations of generate for one task, each
\* stage's capability is invoked at most once in total, and the stage's
\* cache artifact after the second invocation is the one after the first.
C1_Original ==
    \A p \in Procs : \A s \in CacheStages :
        (pc[p] = "done" /\ ghost[p].nth = 2)
        => /\ hist[req[p].task_id].calls[s] <= 1
           /\ ghost[p].preFiles[s].exists
                => files[req[p].task_id][s] = ghost[p].preFiles[s]

\* C1 (amended): a stage whose cache artifact exists when an invocation
\* starts is not recomputed by it and its artifact stays identical; over
\* the first two invocations its capability is then invoked at most once.
C1_CacheIdempotence ==
    \A p \in Procs : \A s \in CacheStages :
        (Active(p) /\ ghost[p].preFiles[s].exists)
        => /\ Count(trace[p], Capability(s)) = 0
           /\ files[req[p].task_id][s] = ghost[p].preFiles[s]
           /\ ghost[p].nth = 2 => hist[req[p].task_id].calls[s] <= 1

\* C1 witness: a second invocation ended with a NoteResult after taking
\* the summarize-stage cache hit on the artifact the first one wrote.
C1_Witness ==
    \E p \in Procs :
        /\ pc[p] = "done" /\ ghost[p].nth = 2
        /\ result[p].kind = "NoteResult"
        /\ ghost[p].preFiles["Summarize"] =
               [exists |-> TRUE, data |-> MarkdownOf(1)]
        /\ Count(trace[p], "md_read") = 1
        /\ hist[req[p].task_id].calls["Summarize"] = 1

C7_ForwardOnly ==
    \A p \in Procs :
        (Active(p) /\ ~req[p].transcribe)
        => \A e \in {"summarize", "md_read", "md_write"} :
               Count(trace[p], e) = 0

\* C7 witness: a service-mode invocation with a summarization backend and
\* summary requested, but transcribe = false, returned a NoteResult.
C7_Witness ==
    \E p \in Procs :
        /\ pc[p] = "done" /\ result[p].kind = "NoteResult"
        /\ ~cliMode /\ ~req[p].transcribe
        /\ req[p].summary /\ req[p].model /\ req[p].formats # {}

\* C8: in batch mode an invocation downloads no video, extracts no frame,
\* calls no summarizer, rewrites no link, persists no metadata, and what
\* it returns on success has empty markdown, whatever the flags.
C8_ModeGating ==
    \A p \in Procs :
        (Active(p) /\ cliMode)
        => /\ \A e \in {"download_video", "video_reader", "summarize",
                         "md_read", "md_write", "screenshot", "link",
                         "save_metadata"} : Count(trace[p], e) = 0
           /\ db = {}
           /\ result[p].kind = "NoteResult" => result[p].markdown = <<>>

\* C8 witness: a batch-mode invocation that asked for everything
\* (screenshot, video understanding, summary, model, formats) succeeded.
C8_Witness ==
    \E p \in Procs :
        /\ pc[p] = "done" /\ cliMode
        /\ result[p].kind = "NoteResult"
        /\ result[p].transcript # None
        /\ req[p].screenshot /\ req[p].video_understanding /\ req[p].grid
        /\ req[p].summary /\ req[p].model
        /\ req[p].formats = {"screenshot", "link"}

\* C9: once a stage of an invocation has raised, the invocation is over,
\* it returned None, and it invoked nothing of a later stage.
C9_AbortOnFailure ==
    \A p \in Procs :
        (Active(p) /\ ghost[p].raised # "none")
        => /\ pc[p] = "done"
           /\ result[p] = NoneResult
           /\ \A i \in 1..Len(trace[p]) :
                 EventStageNo(trace[p][i]) <= StageNo(ghost[p].raised)

\* C9 witness: the download raised after the video had been fetched.
C9_Witness ==
    \E p \in Procs :
        /\ pc[p] = "done" /\ ghost[p].raised = "Download"
        /\ trace[p] = <<"download_video", "download">>

\* C10: generate returns None exactly when a step raised; a success
\* without a summary is a NoteResult whose markdown is empty.
C10_FailureDistinguishable ==
    \A p \in Procs :
        pc[p] = "done"
        => /\ result[p].kind \in {"None", "NoteResult"}
           /\ result[p].kind = "None" <=> ghost[p].raised # "none"
           /\ (result[p].kind = "NoteResult"
                /\ Count(trace[p], "summarize") = 0
                /\ Count(trace[p], "md_read") = 0)
                => result[p].markdown = <<>>

\* C10 witness: a service-mode invocation without a summarization backend
\* went through link rewriting and returned empty markdown with a
\* transcript.
C10_Witness ==
    \E p \in Procs :
        /\ pc[p] = "done" /\ result[p].kind = "NoteResult"
        /\ result[p].markdown = <<>> /\ result[p].transcript # None
        /\ Count(trace[p], "link") = 1

\* C3 (as stated): however get_transcriber requests interleave, at most one
\* instance of a provider type is ever constructed, and every request
\* that returns a handle returns that instance.
C3_ProviderSingleton ==
    \A k \in TranscriberType :
        /\ Cardinality(made[k]) <= 1
        /\ \A th \in Threads :
             (tpc[th] = "done" /\ treq[th].key = k /\ treq[th].ret # Raised)
             => made[k] = {treq[th].ret}

\* C4: a constructor failure reaches the requester, leaves nothing in the
\* registry slot, and a request that finds the slot empty constructs again
\* and, when that works, returns a constructed instance.
C4_FailuresNotMemoized ==
    /\ \A k \in TranscriberType : transcribers[k] \in {0} \cup made[k]
    /\ \A th \in Threads :
         /\ tobs[th].failed
              => tpc[th] = "done" /\ treq[th].ret = Raised
         /\ tpc[th] = "done"
              => /\ treq[th].ret = Raised
                    => \/ tobs[th].failed
                       \/ ~ClassLoaded(treq[th].key)
                       \/ tobs[th].rejected
                 /\ treq[th].ret # Raised
                    => treq[th].ret \in made[treq[th].key]
                 /\ (tobs[th].sawEmpty /\ ClassLoaded(treq[th].key))
                    => tobs[th].attempted

\* C4 witness: a request made after the constructor of its type had
\* raised found the slot empty, constructed again and got the instance.
C4_Witness ==
    \E th \in Threads :
        /\ tpc[th] = "done"
        /\ tobs[th].afterFailure /\ tobs[th].sawEmpty /\ tobs[th].attempted
        /\ treq[th].ret > 0
        /\ transcribers[treq[th].key] = treq[th].ret

\* C5 (as stated): no invocation completes a stage by a cache hit on an
\* artifact that is not a whole document, whether invocations of the task
\* overlap or an earlier writer died or failed in the middle of its write.
C5_WritesCompleteBeforeVisible ==
    \A p \in Procs : ghost[p].torn = {}

\* C6 (as stated): whatever the consumer reads at result.json, in any
\* interleaving with save_cli_result calls for the same bvid, is either no
\* file or a complete document that parses as JSON.
C6_AtomicFinalize ==
    seen.kind = "doc" => JsonWellFormed(seen.data)

\* C11 (as stated): when a stage of the batch run's generate call raised,
\* the document the run writes for the bvid has status FAILED, its error
\* field is the message of the error that was raised, and the run writes
\* no SUCCESS document.
C11_BatchFailureReport ==
    (cpc \in {"save", "saving", "off"}
       /\ cobs.raised \in {"Initialize", "Download", "Transcribe",
                            "Finalize"})
    => /\ cpayload.status = "FAILED"
       /\ cpayload.error = ErrMsg(cobs.raised)
       /\ (cpc = "saving" /\ wst["w1"].status = "WRITTEN")
            => inode[dirent["result.json"]] = ResultDoc("FAILED", saves)

\* C12 (as stated): a get_transcriber request with an unrecognized type
\* token is served from the fast-whisper slot and does not raise (a failure
\* of the default's own constructor aside), whether or not the local
\* whisper backend could be imported.
C12_FallbackSafety ==
    \A th \in Threads :
        (tpc[th] = "done" /\ treq[th].token \notin TranscriberType
           /\ tobs[th].via = "get_transcriber")
        => /\ treq[th].key = "fast-whisper"
           /\ treq[th].ret = Raised => tobs[th].failed

\* C13 (as stated): a NoteGenerator configured with an unrecognized type
\* token is not refused for that reason: its request reaches the default
\* provider.
C13_UnknownTypeStillServed ==
    \A th \in Threads :
        (tpc[th] = "done" /\ treq[th].token \notin TranscriberType
           /\ tobs[th].via = "NoteGenerator")
        => /\ ~tobs[th].rejected
           /\ treq[th].key = "fast-whisper"

\* C14: with MLX unavailable, a request for mlx-whisper is served from the
\* fast-whisper slot, what it returns is a constructed fast-whisper
\* instance, and the mlx-whisper slot stays empty with nothing constructed
\* for it.
C14_PlatformFallback ==
    ~mlxAvailable
    => /\ transcribers["mlx-whisper"] = 0
       /\ made["mlx-whisper"] = {}
       /\ \A th \in Threads :
             (tpc[th] = "done" /\ treq[th].token = "mlx-whisper")
             => /\ treq[th].key = "fast-whisper"
                /\ treq[th].ret # Raised
                     => treq[th].ret \in made["fast-whisper"]

\* C14 witness: with MLX unavailable, a request for mlx-whisper and a
\* direct request for fast-whisper returned the same instance.
C14_Witness ==
    /\ ~mlxAvailable
    /\ tpc["r1"] = "done" /\ tpc["r2"] = "done"
    /\ treq["r1"].token = "mlx-whisper"
    /\ treq["r2"].token = "fast-whisper"
    /\ treq["r1"].ret > 0
    /\ treq["r1"].ret = treq["r2"].ret
    /\ transcribers["fast-whisper"] = treq["r1"].ret

\* The first position of event e in sequence q (0 when it does not occur).
IndexOf(q, e) ==
    IF Count(q, e) = 0 THEN 0
    ELSE CHOOSE i \in 1..Len(q) :
             q[i] = e /\ \A j \in 1..(i - 1) : q[j] # e

\* C15: an invocation that comes to a download or transcript cache file
\* which exists but does not parse ends there with no result, without
\* invoking the stage's capability and with the file left as it was.
C15_MalformedIsHardFailure ==
    \A p \in Procs :
        Active(p) =>
        LET pre == ghost[p].preFiles
            now == files[req[p].task_id]
        IN  /\ (/\ pre["Download"].exists
                /\ ~JsonWellFormed(pre["Download"].data)
                /\ pc[p] \notin {"get_downloader", "get_gpt",
                                  "download_check"}
                /\ ghost[p].raised # "Initialize")
               => /\ pc[p] = "done" /\ result[p] = NoneResult
                  /\ ghost[p].raised = "Download"
                  /\ Count(trace[p], "download") = 0
                  /\ Count(trace[p], "download_video") = 0
                  /\ now["Download"] = pre["Download"]
            /\ (/\ pre["Transcribe"].exists
                /\ ~JsonWellFormed(pre["Transcribe"].data)
                /\ "Download" \in ghost[p].completed
                /\ Eff(p).transcribe
                /\ pc[p] # "transcribe_check")
               => /\ pc[p] = "done" /\ result[p] = NoneResult
                  /\ ghost[p].raised = "Transcribe"
                  /\ Count(trace[p], "transcript") = 0
                  /\ now["Transcribe"] = pre["Transcribe"]

\* C15 witness: an invocation read the audio cache, found a transcript
\* cache file cut short by an earlier failed write, and failed on it.
C15_Witness ==
    \E p \in Procs :
        /\ pc[p] = "done" /\ result[p] = NoneResult
        /\ ghost[p].raised = "Transcribe"
        /\ ghost[p].preFiles["Transcribe"].exists
        /\ ~JsonWellFormed(ghost[p].preFiles["Transcribe"].data)
        /\ trace[p] = <<"audio_read", "transcript_read">>

\* C16: the calls of one invocation are in stage order (Download,
\* Transcribe, Summarize, PostProcess, Finalize), no stage is entered
\* twice, and a cache write is finished before anything else is called.
C16_StageOrdering ==
    \A p \in Procs :
        Active(p) =>
        LET q == trace[p]
        IN  /\ \A i \in 1..Len(q) : \A j \in i..Len(q) :
                  EventStageNo(q[i]) <= EventStageNo(q[j])
            /\ \A e \in {"audio_read", "download_video", "video_reader",
                          "download", "audio_write", "transcript_read",
                          "transcript", "transcript_write", "md_read",
                          "summarize", "md_write", "link", "save_metadata"} :
                  Count(q, e) <= 1
            /\ Count(q, "audio_read") + Count(q, "download") <= 1
            /\ Count(q, "transcript_read") + Count(q, "transcript") <= 1
            /\ Count(q, "md_read") + Count(q, "summarize") <= 1
            /\ loc[p].wpos >= 0
                  => q[Len(q)] \in {"audio_write", "transcript_write",
                                    "md_write"}

\* C16 witness: an invocation went through all five stages.
C16_Witness ==
    \E p \in Procs :
        /\ pc[p] = "done" /\ result[p].kind = "NoteResult"
        /\ trace[p] = <<"download_video", "video_reader", "download",
                        "audio_write", "transcript", "transcript_write",
                        "summarize", "md_write", "screenshot", "link",
                        "save_metadata">>

\* C19: the video is downloaded at most once, only on a download cache
\* miss and only when screenshots or video understanding are asked for
\* after the mode override; when the audio is downloaded the video was
\* downloaded before it exactly in that case; on a download cache hit
\* neither is downloaded.
C19_ConditionalVideoDownload ==
    \A p \in Procs :
        Active(p) =>
        LET q == trace[p]
            wanted == Eff(p).screenshot \/ Eff(p).video_understanding
        IN  /\ Count(q, "download_video") <= 1
            /\ Count(q, "download_video") = 1
                  => /\ wanted
                     /\ ~ghost[p].preFiles["Download"].exists
            /\ Count(q, "download") = 1
                  => /\ wanted <=> Count(q, "download_video") = 1
                     /\ wanted
                          => IndexOf(q, "download_video")
                               < IndexOf(q, "download")
            /\ Count(q, "audio_read") = 1
                  => /\ Count(q, "download") = 0
                     /\ Count(q, "download_video") = 0
                     /\ Count(q, "video_reader") = 0

\* C19 witness: video understanding alone made an invocation download
\* the video and then the audio.
C19_Witness ==
    \E p \in Procs :
        /\ pc[p] = "done" /\ result[p].kind = "NoteResult"
        /\ req[p].video_understanding /\ ~req[p].screenshot
        /\ ~req[p].grid
        /\ trace[p][1] = "download_video" /\ trace[p][2] = "download"

\* C18 (as stated): in a process started in batch mode, from the moment
\* note.py is loaded its mode flag is batch mode, its cache directory is
\* the batch output directory, and no generate call persists metadata.
C18_SingleModeDecision ==
    cpc \notin {"off", "import_note"}
    => /\ cliMode
       /\ noteOutputDir = BatchOutputDir
       /\ Count(trace["p1"], "save_metadata") = 0

\* The position in the markdown of its i-th marker, counting from 1.
MarkerPos(md, i) ==
    CHOOSE j \in 1..Len(md) :
        /\ IsMarker(md[j])
        /\ Cardinality({k \in 1..j : IsMarker(md[k])}) = i

MarkerCount(md) == Cardinality({k \in 1..Len(md) : IsMarker(md[k])})

\* C17: for markdown with n screenshot markers, the i-th frame request
\* (i from 0) carries index i and the offset minutes*60+seconds of the i-th
\* marker in document order; the i-th marker occurrence is the one replaced
\* by the image of frame i and nothing else changes; screenshot insertion
\* that completes has requested exactly n frames.
C17_ScreenshotOrdering ==
    (xop = "screenshots" /\ xpc # "start") =>
        LET n == MarkerCount(xdoc)
            done == IF xpc = "shots_failed" THEN Len(xcalls) - 1
                    ELSE Len(xcalls)
        IN  /\ Len(xcalls) <= n
            /\ xpc = "shots_done" => Len(xcalls) = n
            /\ \A i \in 1..Len(xcalls) :
                   LET tok == xdoc[MarkerPos(xdoc, i)]
                   IN  xcalls[i] = [ts |-> tok.mm * 60 + tok.ss, idx |-> i - 1]
            /\ Len(xmd) = Len(xdoc)
            /\ \A j \in 1..Len(xdoc) :
                   xmd[j] = IF \E i \in 1..done : MarkerPos(xdoc, i) = j
                            THEN Img((CHOOSE i \in 1..done :
                                         MarkerPos(xdoc, i) = j) - 1)
                            ELSE xdoc[j]

\* Markers at 01:05, 00:20 and again 01:05, in document order, got frames
\* 0, 1, 2, each at its own place.
C17_Witness ==
    /\ xop = "screenshots"
    /\ xpc = "shots_done"
    /\ xdoc = <<Marker("star", 1, 5), Marker("bracket", 0, 20),
                Marker("star", 1, 5)>>
    /\ xcalls = <<[ts |-> 65, idx |-> 0], [ts |-> 20, idx |-> 1],
                  [ts |-> 65, idx |-> 2]>>
    /\ xmd = <<Img(0), Img(1), Img(2)>>

\* C20: the transcript returned on a cache hit has the language, full text
\* and segments, in the same order, of the one returned by the run that
\* populated the cache, and the markdown returned on a summarize cache hit
\* equals the markdown originally produced.
C20_CacheRoundTrip ==
    /\ (xop = "transcript" /\ xpc = "read") =>
           /\ xback.transcript.language = xtr.language
           /\ xback.transcript.full_text = xtr.full_text
           /\ xback.transcript.segments = xtr.segments
    /\ (xop = "markdown" /\ xpc = "read") => xback.markdown = xtext

\* Where caller p stands when the next thing it does is to call an external
\* capability of cached stage s.
AtCapability(p, s) ==
    CASE s = "Download" -> pc[p] \in {"download_video", "video_reader",
                                      "download"}
      [] s = "Transcribe" -> pc[p] = "transcribe"
      [] s = "Summarize" -> pc[p] = "summarize"

\* C21: when the external capability of cached stage S raises, that step
\* creates and changes no cache file, and no cache artifact for S exists
\* afterwards; the artifacts of the stages completed earlier in the
\* invocation are the ones left by those stages.
C21_NoArtifactOnFailure ==
    [][\A p \in Procs : \A s \in CacheStages :
          (AtCapability(p, s) /\ ghost[p].raised = "none"
           /\ ghost'[p].raised = s)
          => /\ files' = files
             /\ ~files'[req[p].task_id][s].exists
             /\ \A s2 \in ghost[p].completed :
                    /\ files'[req[p].task_id][s2].exists
                    /\ WholeArtifact(s2, files'[req[p].task_id][s2].data)]_vars

\* The transcriber raised in an invocation that had downloaded the audio
\* and written its cache: the audio artifact is whole and no transcript
\* artifact exists.
C21_Witness ==
    /\ pc["p1"] = "done"
    /\ ghost["p1"].raised = "Transcribe"
    /\ Len(trace["p1"]) > 0
    /\ trace["p1"][Len(trace["p1"])] = "transcript"
    /\ Count(trace["p1"], "audio_write") = 1
    /\ files["t1"]["Download"] =
           [exists |-> TRUE, data |-> JsonDump(AudioOf(ghost["p1"].run))]
    /\ ~files["t1"]["Transcribe"].exists

\* C22: in every invocation of generate on one NoteGenerator, frames are
\* extracted only from the video that invocation's Download stage fetched
\* and summarization gets only the frame grids that stage produced; an
\* invocation whose Download stage fetched no video extracts no frame and
\* passes no frame grid to summarization.
C22_PerInvocationVideoState ==
    \A p \in Procs :
        LET fetched == Count(trace[p], "download_video") > 0
            summarized == Count(trace[p], "summarize") > 0
        IN  /\ ghost[p].usedVideo \in {0, ghost[p].run}
            /\ summarized =>
                   \A i \in DOMAIN ghost[p].grids :
                       ghost[p].grids[i] = ghost[p].run
            /\ ~fetched =>
                   /\ Count(trace[p], "screenshot") = 0
                   /\ summarized => ghost[p].grids = <<>>

====
